---- MODULE Spec2Model ----
(***************************************************************************)
(* A model of the in-memory managers of acccore (ManagerInMemoryImpl.go):  *)
(* the three tables, PersistJournal with its nine validation steps and its *)
(* balance propagation, the commit/cancel hooks, the reversal query and    *)
(* the account operations.                                                 *)
(*                                                                         *)
(* Strings of the program are strings here; "" is the empty string, the    *)
(* value every len(..) == 0 test of the code looks for.  A Go error is the *)
(* name of its variable, and the nil error is "nil".                       *)
(***************************************************************************)
EXTENDS Integers, Sequences, FiniteSets, TLC

\* ------------------------------------------------------------------ bounds
NumJournalIds == 2
NumTransactionIds == 6
MaxTransactions == 2
MaxAmount == 1
MaxTime == 3
MaxPage == 1
MaxPageSize == 2

\* ------------------------------------------------------- program constants
DEBIT == 0
CREDIT == 1

\* ------------------------------------------------------------------- state
VARIABLES
    InMemoryJournalTable,      \* journal ID -> InMemoryJournalRecords
    InMemoryAccountTable,      \* account number -> InMemoryAccountRecord
    InMemoryTransactionTable,  \* transaction ID -> InMemoryTransactionRecords
    lastOp,                    \* the call that has just returned, "none" between calls
    lastErr,                   \* the error it returned
    lastJournal,               \* the journal it was given (journal calls)
    lastAccount,               \* the account it was given (account calls)
    creationBalance,           \* account number -> the balance PersistAccount stored
    calls,                     \* goroutine -> its PersistJournal call in progress
    lastResult                 \* what the call returned beside its error (the reads)

tables == <<InMemoryJournalTable, InMemoryAccountTable, InMemoryTransactionTable>>
vars == <<InMemoryJournalTable, InMemoryAccountTable, InMemoryTransactionTable,
          lastOp, lastErr, lastJournal, lastAccount, creationBalance, calls,
          lastResult>>

EmptyTable == [k \in {} |-> 0]

\* m[k] = v of a Go map: insert or overwrite.
MapPut(m, k, v) == [x \in (DOMAIN m) \cup {k} |-> IF x = k THEN v ELSE m[x]]

\* time.Now(): a clock that ticks once per stored journal.
Now(jt) == Cardinality(DOMAIN jt) + 1

\* ------------------------------------------------------------------ inputs
JournalId(i) == "J" \o ToString(i)
TransactionId(i) == "T" \o ToString(i)
JournalIds == {JournalId(i) : i \in 1..NumJournalIds}
TransactionIds == {TransactionId(i) : i \in 1..NumTransactionIds}
\* A3 is an account number that is stored under SpecFrame only.
AccountNumbers == {"A1", "A2", "A3"}
Creators == {"", "u"}
Amounts == 1..MaxAmount
TransactionTypes == {DEBIT, CREDIT}

\* The managers compare IDs for equality only, so which unused ID a caller
\* picks, and which stored one, makes no difference: a caller here picks the
\* empty ID, the lowest stored ID or one of the lowest unused IDs.
Lowest(S, ids) ==
    {ids[k] : k \in {u \in DOMAIN ids : ids[u] \in S /\ \A m \in 1..(u - 1) : ids[m] \notin S}}

JournalIdsInOrder == [i \in 1..NumJournalIds |-> JournalId(i)]
TransactionIdsInOrder == [i \in 1..NumTransactionIds |-> TransactionId(i)]

FreshJournalIds(jt) == Lowest(JournalIds \ DOMAIN jt, JournalIdsInOrder)
StoredTransactionId(tt) == Lowest(DOMAIN tt, TransactionIdsInOrder)
FreshTransactionId(tt) == Lowest(TransactionIds \ DOMAIN tt, TransactionIdsInOrder)
NextFreshTransactionId(tt) ==
    Lowest((TransactionIds \ DOMAIN tt) \ FreshTransactionId(tt), TransactionIdsInOrder)

\* The description the callers give their journals.
Description == "d"

\* The nil Journal, and the nil a journal's GetReversedJournal() returns.
NoJournal == "<nil>"
NilJournal ==
    [isNil |-> TRUE, journalID |-> "", description |-> "", transactions |-> << >>,
     createBy |-> "", reversedJournal |-> NoJournal]

\* A Transaction as the caller hands it over (the fields of BaseTransaction
\* the managers read), with its ID among ids.
TransactionInputs(ids) ==
    [transactionID : ids,
     accountNumber : AccountNumbers,
     transactionType : TransactionTypes,
     amount : Amounts]

\* The transaction lists of n transactions a caller builds against the
\* transaction table tt; the second unused ID is taken only after the first.
TransactionLists(tt, n) ==
    LET ids == {""} \cup StoredTransactionId(tt) \cup FreshTransactionId(tt)
                    \cup NextFreshTransactionId(tt)
    IN {l \in [1..n -> TransactionInputs(ids)] :
          \A i \in 1..n : l[i].transactionID \in NextFreshTransactionId(tt)
                            => \E k \in 1..(i - 1) : l[k].transactionID \in FreshTransactionId(tt)}

\* A Journal as the caller hands it over; reversedJournal is the ID of the
\* journal object GetReversedJournal() returns, or NoJournal.  Every
\* combination of ID, creator, reversed journal and transactions is there for
\* the journals of fewer than MaxTransactions transactions; the journals of
\* MaxTransactions transactions have an ID and a creator.
JournalInputs(jt, tt) ==
    {NilJournal}
    \cup [isNil : {FALSE},
          journalID : {""} \cup DOMAIN jt \cup FreshJournalIds(jt),
          description : {Description},
          transactions : UNION {TransactionLists(tt, n) : n \in 0..(MaxTransactions - 1)},
          createBy : Creators,
          reversedJournal : {NoJournal} \cup DOMAIN jt \cup FreshJournalIds(jt)]
    \cup [isNil : {FALSE},
          journalID : DOMAIN jt \cup FreshJournalIds(jt),
          description : {Description},
          transactions : TransactionLists(tt, MaxTransactions),
          createBy : {"u"},
          reversedJournal : {NoJournal} \cup DOMAIN jt \cup FreshJournalIds(jt)]

\* The journals handed to CommitJournal and CancelJournal, which read none of
\* their fields.
JournalHandles(jt) ==
    {NilJournal}
    \cup [isNil : {FALSE},
          journalID : {""} \cup DOMAIN jt \cup FreshJournalIds(jt),
          description : {Description},
          transactions : {<< >>},
          createBy : {"u"},
          reversedJournal : {NoJournal}]

\* The goroutines that call PersistJournal at the same time, and a goroutine
\* that has not called yet.
Goroutines == {"g1", "g2"}
IdleCall ==
    [pc |-> "idle", journal |-> NilJournal, idx |-> 0, balance |-> 0, newBalance |-> 0,
     err |-> "nil"]

\* The journals of the concurrent calls: two postings of opposite directions
\* on two accounts, from a known creator.  The first goroutine's journal has
\* the first journal ID and the first two transaction IDs; the second one's
\* has either journal ID, and two further transaction IDs or one of the first
\* journal's.  The first goroutine's journal may declare the second journal ID as
\* the journal it reverses.
ConcurrentJournals(g) ==
    LET ids == IF g = "g1" THEN {<<TransactionId(1), TransactionId(2)>>}
               ELSE {<<TransactionId(3), TransactionId(4)>>,
                     <<TransactionId(1), TransactionId(4)>>}
    IN [isNil : {FALSE},
        journalID : IF g = "g1" THEN {JournalId(1)} ELSE {JournalId(1), JournalId(2)},
        description : {Description},
        transactions :
            {<<[transactionID |-> id[1], accountNumber |-> number[1],
                transactionType |-> type[1], amount |-> amount[1]],
               [transactionID |-> id[2], accountNumber |-> number[2],
                transactionType |-> type[2], amount |-> amount[2]]>> :
                id \in ids,
                number \in {x \in AccountNumbers \X AccountNumbers : x[1] # x[2]},
                type \in {x \in TransactionTypes \X TransactionTypes : x[1] # x[2]},
                amount \in Amounts \X Amounts},
        createBy : {"u"},
        reversedJournal : IF g = "g1" THEN {NoJournal, JournalId(2)} ELSE {NoJournal}]

\* A journal stored before the goroutines start: the second journal ID, with
\* the last two transaction IDs.
JournalsStoredBefore ==
    {[isNil |-> FALSE,
      journalID |-> JournalId(2),
      description |-> Description,
      transactions |->
          <<[transactionID |-> TransactionId(NumTransactionIds - 1), accountNumber |-> "A1",
             transactionType |-> DEBIT, amount |-> 1],
            [transactionID |-> TransactionId(NumTransactionIds), accountNumber |-> "A2",
             transactionType |-> CREDIT, amount |-> 1]>>,
      createBy |-> "u",
      reversedJournal |-> NoJournal]}

\* Amounts as the int64 of Transaction.GetAmount() allows them: negative
\* ones and zero as well.
SignedAmounts == (0 - MaxAmount)..MaxAmount

\* Journals with a fresh ID, a creator and MaxTransactions transactions with
\* fresh IDs, of any direction and any signed amount.
SignedJournals(jt, tt) ==
    LET ids == [i \in 1..MaxTransactions |->
                  IF i = 1 THEN FreshTransactionId(tt) ELSE NextFreshTransactionId(tt)]
        lists == {l \in [1..MaxTransactions ->
                           [transactionID : TransactionIds,
                            accountNumber : AccountNumbers,
                            transactionType : TransactionTypes,
                            amount : SignedAmounts]] :
                     \A i \in 1..MaxTransactions : l[i].transactionID \in ids[i]}
    IN {[isNil |-> FALSE, journalID |-> id, description |-> Description,
         transactions |-> l, createBy |-> "u",
         reversedJournal |-> NoJournal] : id \in FreshJournalIds(jt), l \in lists}

\* The times a caller passes as from and until: the clock shows 1 when the
\* first journal is stored.
Times == 0..MaxTime

\* PageRequest: a zero-based page index and a page size.
PageRequests == [page : 0..MaxPage, pageSize : 1..MaxPageSize]

\* A call that returns nothing beside its error.
NoResult == <<>>

NoAccount ==
    [accountNumber |-> "", name |-> "", description |-> "", createBy |-> "",
     currency |-> "", baseTransactionType |-> DEBIT, balance |-> 0]

Account(number, currency, base, balance) ==
    [accountNumber |-> number, name |-> "n", description |-> "d", createBy |-> "u",
     currency |-> currency, baseTransactionType |-> base, balance |-> balance]

\* The accounts handed to PersistAccount and UpdateAccount: a DEBIT-based and
\* a CREDIT-based account of one currency, the second one also in another
\* currency, an account without a number, and the first account without a
\* name, without a description and without a creator.
AccountInputs ==
    {Account("A1", "IDR", DEBIT, 1),
     Account("A2", "IDR", CREDIT, 0),
     Account("A2", "USD", CREDIT, 0),
     Account("", "IDR", DEBIT, 0),
     [Account("A1", "IDR", DEBIT, 0) EXCEPT !.name = ""],
     [Account("A1", "IDR", DEBIT, 0) EXCEPT !.description = ""],
     [Account("A1", "IDR", DEBIT, 0) EXCEPT !.createBy = ""]}

\* Three accounts of one currency, so that a journal leaves one of them out.
ThreeAccounts ==
    {Account("A1", "IDR", DEBIT, 1),
     Account("A2", "IDR", CREDIT, 0),
     Account("A3", "IDR", DEBIT, 0)}

\* Accounts of either base direction, with and without a balance to start
\* from, in one currency.
AccountsOfAnyBase ==
    {Account(number, "IDR", base, balance) :
        number \in {"A1", "A2"}, base \in TransactionTypes, balance \in 0..MaxAmount}

Init ==
    /\ InMemoryJournalTable = EmptyTable
    /\ InMemoryAccountTable = EmptyTable
    /\ InMemoryTransactionTable = EmptyTable
    /\ lastOp = "none"
    /\ lastErr = "nil"
    /\ lastJournal = NilJournal
    /\ lastAccount = NoAccount
    /\ creationBalance = EmptyTable
    /\ calls = [g \in Goroutines |-> IdleCall]
    /\ lastResult = NoResult

\* ------------------------------------------------------ PersistJournal
\* The sum of the amounts of the transactions of type t (the debitSum and
\* creditSum loop; GetTotalDebit and GetTotalCredit are the same loop).
RECURSIVE SumOfType(_, _)
SumOfType(trxs, t) ==
    IF Len(trxs) = 0 THEN 0
    ELSE (IF Head(trxs).transactionType = t THEN Head(trxs).amount ELSE 0)
         + SumOfType(Tail(trxs), t)

GetTotalDebit(trxs) == SumOfType(trxs, DEBIT)
GetTotalCredit(trxs) == SumOfType(trxs, CREDIT)

\* The reversal query taken to find every stored journal reversed.
IsJournalIdReversedAlways(journalId, jt) ==
    IF journalId \in DOMAIN jt THEN [reversed |-> TRUE, err |-> "nil"]
    ELSE [reversed |-> FALSE, err |-> "ErrJournalIdNotFound"]

\* IsJournalIdReversed: [reversed, err].
IsJournalIdReversed(journalId, jt) ==
    IF journalId \in DOMAIN jt
    THEN [reversed |-> \E k \in DOMAIN jt : jt[k].reversedJournalId = journalId,
          err |-> "nil"]
    ELSE [reversed |-> FALSE, err |-> "ErrJournalIdNotFound"]

\* CheckReversal with step 9 left out.
CheckReversalOmitted(j, jt) == "nil"

\* Step 9 of the validation: the reversal query is made with the ID of the
\* journal being persisted.
CheckReversal(j, jt) ==
    IF j.reversedJournal = NoJournal THEN "nil"
    ELSE LET r == IsJournalIdReversed(j.journalID, jt) IN
         IF r.err # "nil" THEN r.err
         ELSE IF r.reversed THEN "ErrJournalCanNotDoubleReverse"
         ELSE "nil"

\* ValidateJournal without step 2 (the journal ID is not looked up).
ValidateJournalNoJournalLookup(j, jt, tt, at) ==
    LET trxs == j.transactions
        n == Len(trxs)
    IN
    IF j.isNil THEN "ErrJournalNil"
    ELSE IF j.journalID = "" THEN "ErrJournalMissingId"
    ELSE IF n = 0 THEN "ErrJournalNoTransaction"
    ELSE IF j.createBy = "" THEN "ErrJournalMissingAuthor"
    ELSE IF \E i \in 1..n : trxs[i].transactionID = ""
         THEN "ErrJournalTransactionMissingID"
    ELSE IF \E i \in 1..n : trxs[i].transactionID \in DOMAIN tt
         THEN "ErrJournalTransactionAlreadyPersisted"
    ELSE IF GetTotalCredit(trxs) # GetTotalDebit(trxs) THEN "ErrJournalNotBalance"
    ELSE IF \E i, k \in 1..n : i < k /\ trxs[i].accountNumber = trxs[k].accountNumber
         THEN "ErrJournalTransactionAccountDuplicate"
    ELSE IF \E i \in 1..n : trxs[i].accountNumber \notin DOMAIN at
         THEN "ErrJournalTransactionAccountNotPersist"
    ELSE IF \E i \in 2..n : at[trxs[i].accountNumber].currency
                              # at[trxs[1].accountNumber].currency
         THEN "ErrJournalTransactionMixCurrency"
    ELSE CheckReversal(j, jt)

\* ValidateJournal without step 4 (the transaction IDs are not looked up).
ValidateJournalNoTransactionLookup(j, jt, tt, at) ==
    LET trxs == j.transactions
        n == Len(trxs)
    IN
    IF j.isNil THEN "ErrJournalNil"
    ELSE IF j.journalID = "" THEN "ErrJournalMissingId"
    ELSE IF n = 0 THEN "ErrJournalNoTransaction"
    ELSE IF j.createBy = "" THEN "ErrJournalMissingAuthor"
    ELSE IF j.journalID \in DOMAIN jt THEN "ErrJournalAlreadyPersisted"
    ELSE IF \E i \in 1..n : trxs[i].transactionID = ""
         THEN "ErrJournalTransactionMissingID"
    ELSE IF GetTotalCredit(trxs) # GetTotalDebit(trxs) THEN "ErrJournalNotBalance"
    ELSE IF \E i, k \in 1..n : i < k /\ trxs[i].accountNumber = trxs[k].accountNumber
         THEN "ErrJournalTransactionAccountDuplicate"
    ELSE IF \E i \in 1..n : trxs[i].accountNumber \notin DOMAIN at
         THEN "ErrJournalTransactionAccountNotPersist"
    ELSE IF \E i \in 2..n : at[trxs[i].accountNumber].currency
                              # at[trxs[1].accountNumber].currency
         THEN "ErrJournalTransactionMixCurrency"
    ELSE CheckReversal(j, jt)

\* ValidateJournal with step 5 (the balance of the journal) made after step 8.
ValidateJournalBalanceLast(j, jt, tt, at) ==
    LET trxs == j.transactions
        n == Len(trxs)
    IN
    IF j.isNil THEN "ErrJournalNil"
    ELSE IF j.journalID = "" THEN "ErrJournalMissingId"
    ELSE IF n = 0 THEN "ErrJournalNoTransaction"
    ELSE IF j.createBy = "" THEN "ErrJournalMissingAuthor"
    ELSE IF j.journalID \in DOMAIN jt THEN "ErrJournalAlreadyPersisted"
    ELSE IF \E i \in 1..n : trxs[i].transactionID = ""
         THEN "ErrJournalTransactionMissingID"
    ELSE IF \E i \in 1..n : trxs[i].transactionID \in DOMAIN tt
         THEN "ErrJournalTransactionAlreadyPersisted"
    ELSE IF \E i, k \in 1..n : i < k /\ trxs[i].accountNumber = trxs[k].accountNumber
         THEN "ErrJournalTransactionAccountDuplicate"
    ELSE IF \E i \in 1..n : trxs[i].accountNumber \notin DOMAIN at
         THEN "ErrJournalTransactionAccountNotPersist"
    ELSE IF \E i \in 2..n : at[trxs[i].accountNumber].currency
                              # at[trxs[1].accountNumber].currency
         THEN "ErrJournalTransactionMixCurrency"
    ELSE IF GetTotalCredit(trxs) # GetTotalDebit(trxs) THEN "ErrJournalNotBalance"
    ELSE CheckReversal(j, jt)

\* Step 6 left out: no account is ever found twice.
AccountDuplicateNotLookedFor(trxs) == FALSE

\* Step 6: an account appears twice in the journal (accountDupCheck).
AccountDuplicate(trxs) ==
    \E i, k \in 1..Len(trxs) : i < k /\ trxs[i].accountNumber = trxs[k].accountNumber

\* Step 7 left out: every account is taken as stored.
AccountNotPersistNotLookedFor(trxs, at) == FALSE

\* Step 7: a transaction is on an account that is not in the account table.
AccountNotPersist(trxs, at) ==
    \E i \in 1..Len(trxs) : trxs[i].accountNumber \notin DOMAIN at

\* Step 8 left out: the currencies are not compared.
MixCurrencyNotLookedFor(trxs, at) == FALSE

\* Step 8: the currency of the account of a transaction differs from the
\* currency of the account of the first transaction.
MixCurrency(trxs, at) ==
    \E i \in 2..Len(trxs) : at[trxs[i].accountNumber].currency
                              # at[trxs[1].accountNumber].currency

\* Steps 1 and 2 of PersistJournal: the mandatory fields and the lookup of
\* the journal ID.
ValidateJournalId(j, jt) ==
    IF j.isNil THEN "ErrJournalNil"
    ELSE IF j.journalID = "" THEN "ErrJournalMissingId"
    ELSE IF Len(j.transactions) = 0 THEN "ErrJournalNoTransaction"
    ELSE IF j.createBy = "" THEN "ErrJournalMissingAuthor"
    ELSE IF j.journalID \in DOMAIN jt THEN "ErrJournalAlreadyPersisted"
    ELSE "nil"

\* Steps 3 to 9 of PersistJournal.
ValidateTransactions(j, jt, tt, at) ==
    LET trxs == j.transactions
        n == Len(trxs)
    IN
    IF \E i \in 1..n : trxs[i].transactionID = ""
         THEN "ErrJournalTransactionMissingID"
    ELSE IF \E i \in 1..n : trxs[i].transactionID \in DOMAIN tt
         THEN "ErrJournalTransactionAlreadyPersisted"
    ELSE IF GetTotalCredit(trxs) # GetTotalDebit(trxs) THEN "ErrJournalNotBalance"
    ELSE IF AccountDuplicate(trxs) THEN "ErrJournalTransactionAccountDuplicate"
    ELSE IF AccountNotPersist(trxs, at) THEN "ErrJournalTransactionAccountNotPersist"
    ELSE IF MixCurrency(trxs, at) THEN "ErrJournalTransactionMixCurrency"
    ELSE CheckReversal(j, jt)

\* Steps 1 to 9 of PersistJournal, in the order of the code: the error the
\* call returns, "nil" when every check passes.
ValidateJournal(j, jt, tt, at) ==
    IF ValidateJournalId(j, jt) # "nil" THEN ValidateJournalId(j, jt)
    ELSE ValidateTransactions(j, jt, tt, at)

\* The journal record PersistJournal inserts.
JournalToInsert(j, jt) ==
    [journalId |-> j.journalID,
     journalingTime |-> Now(jt),
     description |-> j.description,
     reversal |-> j.reversedJournal # NoJournal,
     reversedJournalId |-> IF j.reversedJournal # NoJournal THEN j.reversedJournal ELSE "",
     amount |-> GetTotalCredit(j.transactions),
     createTime |-> Now(jt),
     createBy |-> j.createBy]

\* The balance propagation rule taken to add the amount in either direction.
NewBalanceAlwaysAdds(balance, transactionType, accountTrxType, amount) == balance + amount

\* The balance propagation rule.
NewBalance(balance, transactionType, accountTrxType, amount) ==
    IF transactionType = accountTrxType THEN balance + amount ELSE balance - amount

\* The transaction record inserted for trx, read against the account table at.
TransactionToInsert(trx, journalId, now, at) ==
    [transactionId |-> trx.transactionID,
     transactionTime |-> now,
     accountNumber |-> trx.accountNumber,
     journalId |-> journalId,
     transactionType |-> trx.transactionType,
     amount |-> trx.amount,
     accountBalance |-> NewBalance(at[trx.accountNumber].balance, trx.transactionType,
                                   at[trx.accountNumber].baseTransactionType, trx.amount),
     createTime |-> now]

\* The loop taken to store the new balance on every account of the table.
RECURSIVE SaveTransactionsOnEveryAccount(_, _, _, _, _)
SaveTransactionsOnEveryAccount(trxs, journalId, now, tt, at) ==
    IF Len(trxs) = 0 THEN [tt |-> tt, at |-> at]
    ELSE LET trx == Head(trxs)
             rec == TransactionToInsert(trx, journalId, now, at)
         IN SaveTransactionsOnEveryAccount(Tail(trxs), journalId, now,
                MapPut(tt, rec.transactionId, rec),
                [x \in DOMAIN at |-> [at[x] EXCEPT !.balance = rec.accountBalance]])

\* The loop that saves the transactions: for each one in the caller's order,
\* insert its record and store the new balance on its account.  The result is
\* the pair of tables [tt, at] after the loop.
RECURSIVE SaveTransactions(_, _, _, _, _)
SaveTransactions(trxs, journalId, now, tt, at) ==
    IF Len(trxs) = 0 THEN [tt |-> tt, at |-> at]
    ELSE LET trx == Head(trxs)
             rec == TransactionToInsert(trx, journalId, now, at)
             acc == at[trx.accountNumber]
         IN SaveTransactions(Tail(trxs), journalId, now,
                MapPut(tt, rec.transactionId, rec),
                MapPut(at, trx.accountNumber,
                       [acc EXCEPT !.balance = rec.accountBalance]))

\* PersistJournal with the journal record inserted as soon as its ID is known
\* to be new, before the transactions are checked.
PersistJournalInsertsEarly(j) ==
    LET err == ValidateJournal(j, InMemoryJournalTable, InMemoryTransactionTable,
                               InMemoryAccountTable)
        saved == SaveTransactions(j.transactions, j.journalID, Now(InMemoryJournalTable),
                                  InMemoryTransactionTable, InMemoryAccountTable)
        early == err \notin {"ErrJournalNil", "ErrJournalMissingId", "ErrJournalNoTransaction",
                             "ErrJournalMissingAuthor", "ErrJournalAlreadyPersisted"}
    IN
    /\ lastOp' = "PersistJournal"
    /\ lastErr' = err
    /\ lastJournal' = j
    /\ InMemoryJournalTable' =
          IF early THEN MapPut(InMemoryJournalTable, j.journalID,
                               JournalToInsert(j, InMemoryJournalTable))
          ELSE InMemoryJournalTable
    /\ IF err = "nil"
       THEN /\ InMemoryTransactionTable' = saved.tt
            /\ InMemoryAccountTable' = saved.at
       ELSE UNCHANGED <<InMemoryTransactionTable, InMemoryAccountTable>>
    /\ UNCHANGED <<creationBalance, lastAccount, calls, lastResult>>

PersistJournal(j) ==
    LET err == ValidateJournal(j, InMemoryJournalTable, InMemoryTransactionTable,
                               InMemoryAccountTable)
        saved == SaveTransactions(j.transactions, j.journalID, Now(InMemoryJournalTable),
                                  InMemoryTransactionTable, InMemoryAccountTable)
    IN
    /\ lastOp' = "PersistJournal"
    /\ lastErr' = err
    /\ lastJournal' = j
    /\ IF err = "nil"
       THEN /\ InMemoryJournalTable' =
                   MapPut(InMemoryJournalTable, j.journalID,
                          JournalToInsert(j, InMemoryJournalTable))
            /\ InMemoryTransactionTable' = saved.tt
            /\ InMemoryAccountTable' = saved.at
       ELSE UNCHANGED tables
    /\ UNCHANGED <<creationBalance, lastAccount, calls, lastResult>>

\* ------------------------------------------------------ reads
IsJournalIdExist(id, jt) == id \in DOMAIN jt

IsTransactionIdExist(id, tt) == id \in DOMAIN tt

\* The error of GetJournalById: a reversal journal loads the journal it
\* reverses by a recursive call, and any error of that call is reported as an
\* inconsistent reversal.  A chain of reversals that returns to itself never
\* ends in the code (the goroutine's stack overflows); depth bounds the chain
\* followed here.
RECURSIVE GetJournalByIdErr(_, _, _)
GetJournalByIdErr(journalId, jt, depth) ==
    IF journalId \notin DOMAIN jt THEN "ErrJournalIdNotFound"
    ELSE IF ~jt[journalId].reversal THEN "nil"
    ELSE IF depth = 0 THEN "stack overflow"
    ELSE LET err == GetJournalByIdErr(jt[journalId].reversedJournalId, jt, depth - 1) IN
         IF err = "stack overflow" THEN err
         ELSE IF err # "nil" THEN "ErrJournalLoadReversalInconsistent"
         ELSE "nil"

\* GetJournalById: the error and, without one, the journal built from the
\* record and from the transaction records that carry its ID.
GetJournalById(journalId, jt, tt) ==
    LET err == GetJournalByIdErr(journalId, jt, Cardinality(DOMAIN jt)) IN
    IF err # "nil"
    THEN [err |-> err, journalID |-> "", description |-> "", createBy |-> "", amount |-> 0,
          transactions |-> {}]
    ELSE [err |-> "nil",
          journalID |-> jt[journalId].journalId,
          description |-> jt[journalId].description,
          createBy |-> jt[journalId].createBy,
          amount |-> jt[journalId].amount,
          transactions |-> {tt[t] : t \in {k \in DOMAIN tt : tt[k].journalId = journalId}}]

\* GetTransactionById: the error and, without one, the fields of the record.
GetTransactionById(transactionId, tt) ==
    IF transactionId \notin DOMAIN tt
    THEN [err |-> "ErrTransactionNotFound", found |-> FALSE]
    ELSE [err |-> "nil", found |-> TRUE,
          transactionID |-> tt[transactionId].transactionId,
          accountNumber |-> tt[transactionId].accountNumber,
          journalID |-> tt[transactionId].journalId,
          transactionType |-> tt[transactionId].transactionType,
          amount |-> tt[transactionId].amount,
          accountBalance |-> tt[transactionId].accountBalance]

CommitJournal(j) ==
    /\ lastOp' = "CommitJournal"
    /\ lastErr' = "nil"
    /\ lastJournal' = j
    /\ UNCHANGED <<tables, creationBalance, lastAccount, calls, lastResult>>

\* CancelJournal as a rollback: the journal record and its transaction records
\* are deleted.
CancelJournalRollsBack(j) ==
    /\ lastOp' = "CancelJournal"
    /\ lastErr' = "nil"
    /\ lastJournal' = j
    /\ InMemoryJournalTable' =
          [k \in DOMAIN InMemoryJournalTable \ {j.journalID} |-> InMemoryJournalTable[k]]
    /\ InMemoryTransactionTable' =
          [k \in {t \in DOMAIN InMemoryTransactionTable :
                    InMemoryTransactionTable[t].journalId # j.journalID}
             |-> InMemoryTransactionTable[k]]
    /\ UNCHANGED <<InMemoryAccountTable, creationBalance, lastAccount, calls, lastResult>>

CancelJournal(j) ==
    /\ lastOp' = "CancelJournal"
    /\ lastErr' = "nil"
    /\ lastJournal' = j
    /\ UNCHANGED <<tables, creationBalance, lastAccount, calls, lastResult>>

\* ------------------------------------------------------ account manager
IsAccountIdExist(id, at) == id \in DOMAIN at

\* The four mandatory-field checks PersistAccount and UpdateAccount share.
AccountMandatories(a) ==
    IF a.accountNumber = "" THEN "ErrAccountMissingID"
    ELSE IF a.name = "" THEN "ErrAccountMissingName"
    ELSE IF a.description = "" THEN "ErrAccountMissingDescription"
    ELSE IF a.createBy = "" THEN "ErrAccountMissingCreator"
    ELSE "nil"

AccountRecord(a) ==
    [id |-> a.accountNumber,
     currency |-> a.currency,
     name |-> a.name,
     description |-> a.description,
     baseTransactionType |-> a.baseTransactionType,
     balance |-> a.balance,
     createBy |-> a.createBy]

\* GetAccountById: the error and, without one, the fields of the record.
GetAccountById(id, at) ==
    IF id \notin DOMAIN at
    THEN [err |-> "ErrAccountIdNotFound", found |-> FALSE]
    ELSE [err |-> "nil", found |-> TRUE,
          accountNumber |-> at[id].id,
          currency |-> at[id].currency,
          name |-> at[id].name,
          description |-> at[id].description,
          baseTransactionType |-> at[id].baseTransactionType,
          balance |-> at[id].balance,
          createBy |-> at[id].createBy]

\* PersistAccountErr without the lookup of the account number.
PersistAccountErrNoLookup(a, at) == AccountMandatories(a)

PersistAccountErr(a, at) ==
    IF AccountMandatories(a) # "nil" THEN AccountMandatories(a)
    ELSE IF IsAccountIdExist(a.accountNumber, at) THEN "ErrAccountAlreadyPersisted"
    ELSE "nil"

PersistAccount(a) ==
    LET err == PersistAccountErr(a, InMemoryAccountTable) IN
    /\ lastOp' = "PersistAccount"
    /\ lastErr' = err
    /\ lastAccount' = a
    /\ IF err = "nil"
       THEN /\ InMemoryAccountTable' =
                   MapPut(InMemoryAccountTable, a.accountNumber, AccountRecord(a))
            /\ creationBalance' = MapPut(creationBalance, a.accountNumber, a.balance)
       ELSE UNCHANGED <<InMemoryAccountTable, creationBalance>>
    /\ UNCHANGED <<InMemoryJournalTable, InMemoryTransactionTable, lastJournal, calls, lastResult>>

UpdateAccountErr(a, at) ==
    IF AccountMandatories(a) # "nil" THEN AccountMandatories(a)
    ELSE IF ~IsAccountIdExist(a.accountNumber, at) THEN "ErrAccountIsNotPersisted"
    ELSE "nil"

\* UpdateAccount taken to remove the record of the account it is given.
UpdateAccountDeletes(a) ==
    LET err == UpdateAccountErr(a, InMemoryAccountTable) IN
    /\ lastOp' = "UpdateAccount"
    /\ lastErr' = err
    /\ lastAccount' = a
    /\ IF err = "nil"
       THEN InMemoryAccountTable' =
               [x \in DOMAIN InMemoryAccountTable \ {a.accountNumber} |->
                   InMemoryAccountTable[x]]
       ELSE UNCHANGED InMemoryAccountTable
    /\ UNCHANGED <<InMemoryJournalTable, InMemoryTransactionTable, lastJournal,
                   creationBalance, calls, lastResult>>

UpdateAccount(a) ==
    LET err == UpdateAccountErr(a, InMemoryAccountTable) IN
    /\ lastOp' = "UpdateAccount"
    /\ lastErr' = err
    /\ lastAccount' = a
    /\ IF err = "nil"
       THEN InMemoryAccountTable' =
                MapPut(InMemoryAccountTable, a.accountNumber, AccountRecord(a))
       ELSE UNCHANGED InMemoryAccountTable
    /\ UNCHANGED <<InMemoryJournalTable, InMemoryTransactionTable, lastJournal,
                   creationBalance, calls, lastResult>>

\* ------------------------------------------------------ the queries
\* The orders sort.SliceStable may leave the records recs in: the records
\* come out of a map in any order, and the sort keeps the order of those that
\* have the same time.  Time(r) is the time the records are compared by.
SortedByJournalingTime(recs) ==
    {l \in [1..Cardinality(recs) -> recs] :
        /\ \A i, k \in DOMAIN l : i # k => l[i] # l[k]
        /\ \A i, k \in DOMAIN l : i < k => ~(l[k].journalingTime < l[i].journalingTime)}

SortedByCreateTime(recs) ==
    {l \in [1..Cardinality(recs) -> recs] :
        /\ \A i, k \in DOMAIN l : i # k => l[i] # l[k]
        /\ \A i, k \in DOMAIN l : i < k => ~(l[k].createTime < l[i].createTime)}

\* The reversal query, as a call of its own.
IsJournalIdReversedCall(journalId) ==
    LET r == IsJournalIdReversed(journalId, InMemoryJournalTable) IN
    /\ lastOp' = "IsJournalIdReversed"
    /\ lastErr' = r.err
    /\ lastResult' = [journalId |-> journalId, reversed |-> r.reversed]
    /\ UNCHANGED <<tables, lastJournal, lastAccount, creationBalance, calls>>

\* allResult of ListJournals: the journal records the filter keeps.
JournalsBetween(from, until, jt) ==
    {jt[k] : k \in {x \in DOMAIN jt : jt[x].journalingTime > from
                                       /\ jt[x].journalingTime < until}}

\* ListJournals up to the sort: the count and the sorted records, of which
\* the call returns a page.
ListJournals(from, until) ==
    LET allResult == JournalsBetween(from, until, InMemoryJournalTable) IN
    /\ lastOp' = "ListJournals"
    /\ lastErr' = "nil"
    /\ \E sorted \in SortedByJournalingTime(allResult) :
          lastResult' = [from |-> from, until |-> until,
                         count |-> Cardinality(allResult), allResult |-> sorted]
    /\ UNCHANGED <<tables, lastJournal, lastAccount, creationBalance, calls>>

\* resultRecord of ListTransactionsOnAccount: the records the filter keeps.
TransactionsWithAccount(accountNumber, tt) ==
    {tt[k] : k \in {x \in DOMAIN tt : tt[x].accountNumber = accountNumber}}

\* ListTransactionsOnAccount: the transactions it returns.
ListTransactionsOnAccount(from, until, accountNumber, request) ==
    LET resultRecord == TransactionsWithAccount(accountNumber, InMemoryTransactionTable) IN
    /\ lastOp' = "ListTransactionsOnAccount"
    /\ lastErr' = "nil"
    /\ \E sorted \in SortedByCreateTime(resultRecord) :
          lastResult' = [from |-> from, until |-> until, accountNumber |-> accountNumber,
                         request |-> request, transactions |-> sorted]
    /\ UNCHANGED <<tables, lastJournal, lastAccount, creationBalance, calls>>

\* The call returns to its caller, which is then free to make the next one.
Return ==
    /\ lastOp # "none"
    /\ lastOp' = "none"
    /\ lastErr' = "nil"
    /\ lastJournal' = NilJournal
    /\ lastAccount' = NoAccount
    /\ lastResult' = NoResult
    /\ UNCHANGED <<tables, creationBalance, calls>>

\* ------------------------------------------------------ concurrent calls
\* PersistJournal as a goroutine runs it beside another one: the tables are
\* plain maps without a lock, so the steps of two calls interleave between
\* any two accesses of a table.  The validation is two steps here, the lookup
\* of the journal ID and the checks that follow it; each write of the
\* persisting part is a step of its own.

\* The call is entered: steps 1 and 2, which look the journal ID up.
BeginPersistJournal(g, j) ==
    LET err == ValidateJournalId(j, InMemoryJournalTable) IN
    /\ calls[g].pc = "idle"
    /\ calls' = [calls EXCEPT ![g] =
                   [IdleCall EXCEPT !.pc = IF err = "nil" THEN "validate" ELSE "done",
                                    !.journal = j,
                                    !.err = err]]
    /\ UNCHANGED <<tables, lastOp, lastErr, lastJournal, lastAccount, creationBalance, lastResult>>

\* Steps 3 to 9, which read the tables as they are by then.
CheckTransactions(g) ==
    LET err == ValidateTransactions(calls[g].journal, InMemoryJournalTable,
                                    InMemoryTransactionTable, InMemoryAccountTable)
    IN
    /\ calls[g].pc = "validate"
    /\ calls' = [calls EXCEPT ![g].pc = IF err = "nil" THEN "insertJournal" ELSE "done",
                              ![g].err = err]
    /\ UNCHANGED <<tables, lastOp, lastErr, lastJournal, lastAccount, creationBalance, lastResult>>

\* InMemoryJournalTable[journalToInsert.journalId] = journalToInsert
InsertJournal(g) ==
    LET j == calls[g].journal IN
    /\ calls[g].pc = "insertJournal"
    /\ InMemoryJournalTable' =
          MapPut(InMemoryJournalTable, j.journalID, JournalToInsert(j, InMemoryJournalTable))
    /\ calls' = [calls EXCEPT ![g].pc = "readBalance", ![g].idx = 1]
    /\ UNCHANGED <<InMemoryAccountTable, InMemoryTransactionTable, lastOp, lastErr,
                   lastJournal, lastAccount, creationBalance, lastResult>>

\* balance, accountTrxType := ... and the new balance computed from them
ReadBalance(g) ==
    LET trx == calls[g].journal.transactions[calls[g].idx]
        acc == InMemoryAccountTable[trx.accountNumber]
    IN
    /\ calls[g].pc = "readBalance"
    /\ calls' = [calls EXCEPT
                   ![g].pc = "insertTransaction",
                   ![g].balance = acc.balance,
                   ![g].newBalance = NewBalance(acc.balance, trx.transactionType,
                                                acc.baseTransactionType, trx.amount)]
    /\ UNCHANGED <<tables, lastOp, lastErr, lastJournal, lastAccount, creationBalance, lastResult>>

\* InMemoryTransactionTable[transactionToInsert.transactionId] = transactionToInsert
InsertTransaction(g) ==
    LET j == calls[g].journal
        trx == j.transactions[calls[g].idx]
        now == Now(InMemoryJournalTable)
        rec == [TransactionToInsert(trx, j.journalID, now, InMemoryAccountTable)
                  EXCEPT !.accountBalance = calls[g].newBalance]
    IN
    /\ calls[g].pc = "insertTransaction"
    /\ InMemoryTransactionTable' = MapPut(InMemoryTransactionTable, rec.transactionId, rec)
    /\ calls' = [calls EXCEPT ![g].pc = "writeBalance"]
    /\ UNCHANGED <<InMemoryJournalTable, InMemoryAccountTable, lastOp, lastErr,
                   lastJournal, lastAccount, creationBalance, lastResult>>

\* InMemoryAccountTable[trx.GetAccountNumber()].balance = newBalance, and on to
\* the next transaction or to the return of nil.
WriteBalance(g) ==
    LET j == calls[g].journal
        trx == j.transactions[calls[g].idx]
        last == calls[g].idx = Len(j.transactions)
    IN
    /\ calls[g].pc = "writeBalance"
    /\ InMemoryAccountTable' =
          [InMemoryAccountTable EXCEPT ![trx.accountNumber].balance = calls[g].newBalance]
    /\ calls' = [calls EXCEPT ![g].pc = IF last THEN "done" ELSE "readBalance",
                              ![g].idx = IF last THEN calls[g].idx ELSE calls[g].idx + 1]
    /\ UNCHANGED <<InMemoryJournalTable, InMemoryTransactionTable, lastOp, lastErr,
                   lastJournal, lastAccount, creationBalance, lastResult>>

\* Two goroutines inside the persisting part access the maps without a lock:
\* the Go runtime may stop the program with "concurrent map writes".
Persisting(g) ==
    calls[g].pc \in {"insertJournal", "readBalance", "insertTransaction", "writeBalance"}

ConcurrentMapWrites ==
    /\ \A g \in Goroutines : Persisting(g)
    /\ calls' = [g \in Goroutines |-> [calls[g] EXCEPT !.pc = "fatal"]]
    /\ UNCHANGED <<tables, lastOp, lastErr, lastJournal, lastAccount, creationBalance, lastResult>>

AllIdle == \A g \in Goroutines : calls[g].pc = "idle"

\* No PersistJournal call is under way.
NoneRunning == \A g \in Goroutines : calls[g].pc \in {"idle", "done"}

\* ------------------------------------------------------ specifications
Next ==
    \/ /\ lastOp = "none"
       /\ \/ \E j \in JournalInputs(InMemoryJournalTable, InMemoryTransactionTable) :
                PersistJournal(j)
          \/ \E j \in JournalHandles(InMemoryJournalTable) : CommitJournal(j)
          \/ \E j \in JournalHandles(InMemoryJournalTable) : CancelJournal(j)
          \/ \E a \in AccountInputs : PersistAccount(a)
          \/ \E a \in AccountInputs : UpdateAccount(a)
    \/ Return

Spec == Init /\ [][Next]_vars

\* PersistAccount and PersistJournal calls only.
NextPersist ==
    \/ /\ lastOp = "none"
       /\ \/ \E j \in JournalInputs(InMemoryJournalTable, InMemoryTransactionTable) :
                PersistJournal(j)
          \/ \E a \in AccountInputs : PersistAccount(a)
    \/ Return

SpecPersist == Init /\ [][NextPersist]_vars

\* PersistAccount, PersistJournal and the queries.
NextQueries ==
    \/ /\ lastOp = "none"
       /\ \/ \E a \in AccountInputs : PersistAccount(a)
          \/ \E j \in JournalInputs(InMemoryJournalTable, InMemoryTransactionTable) :
                PersistJournal(j)
          \/ \E id \in JournalIds : IsJournalIdReversedCall(id)
          \/ \E from, until \in Times : ListJournals(from, until)
          \/ \E from, until \in Times : \E number \in AccountNumbers :
                \E request \in PageRequests :
                   ListTransactionsOnAccount(from, until, number, request)
    \/ Return

SpecQueries == Init /\ [][NextQueries]_vars

\* PersistAccount and PersistJournal, the journals with amounts of any sign.
NextAmounts ==
    \/ /\ lastOp = "none"
       /\ \/ \E a \in AccountInputs : PersistAccount(a)
          \/ \E j \in SignedJournals(InMemoryJournalTable, InMemoryTransactionTable) :
                PersistJournal(j)
    \/ Return

SpecAmounts == Init /\ [][NextAmounts]_vars

\* PersistAccount of accounts of either base direction, and PersistJournal.
NextBases ==
    \/ /\ lastOp = "none"
       /\ \/ \E a \in AccountsOfAnyBase : PersistAccount(a)
          \/ \E j \in JournalInputs(InMemoryJournalTable, InMemoryTransactionTable) :
                PersistJournal(j)
    \/ Return

SpecBases == Init /\ [][NextBases]_vars

\* PersistAccount of three accounts, and PersistJournal.
NextFrame ==
    \/ /\ lastOp = "none"
       /\ \/ \E a \in ThreeAccounts : PersistAccount(a)
          \/ \E j \in JournalInputs(InMemoryJournalTable, InMemoryTransactionTable) :
                PersistJournal(j)
    \/ Return

SpecFrame == Init /\ [][NextFrame]_vars

\* The accounts, and a journal, are stored first; then the goroutines call
\* PersistJournal; the reversal query is made while no call is under way.
NextConcurrent ==
    \/ /\ lastOp = "none"
       /\ AllIdle
       /\ \E a \in AccountInputs : PersistAccount(a)
    \/ /\ lastOp = "none"
       /\ AllIdle
       /\ \E j \in JournalsStoredBefore : PersistJournal(j)
    \/ Return
    \/ /\ lastOp = "none"
       /\ \E g \in Goroutines : \E j \in ConcurrentJournals(g) : BeginPersistJournal(g, j)
    \/ \E g \in Goroutines : CheckTransactions(g)
    \/ /\ lastOp = "none"
       /\ NoneRunning
       /\ \E id \in JournalIds : IsJournalIdReversedCall(id)
    \/ \E g \in Goroutines : InsertJournal(g)
    \/ \E g \in Goroutines : ReadBalance(g)
    \/ \E g \in Goroutines : InsertTransaction(g)
    \/ \E g \in Goroutines : WriteBalance(g)
    \/ ConcurrentMapWrites

SpecConcurrent == Init /\ [][NextConcurrent]_vars

\* ------------------------------------------------------ the properties
\* The balance propagation rule as section 4.1 states it.
PropagationRule(bal, d, b, amount) == IF d = b THEN bal + amount ELSE bal - amount

TransactionsOnAccount(number) ==
    {InMemoryTransactionTable[t] :
        t \in {k \in DOMAIN InMemoryTransactionTable :
                 InMemoryTransactionTable[k].accountNumber = number}}

TransactionsOfJournal(id) ==
    {InMemoryTransactionTable[t] :
        t \in {k \in DOMAIN InMemoryTransactionTable :
                 InMemoryTransactionTable[k].journalId = id}}

\* The fold of the rule over a set of transaction records in creation order.
RECURSIVE FoldPostings(_, _, _)
FoldPostings(recs, bal, base) ==
    IF recs = {} THEN bal
    ELSE LET r == CHOOSE x \in recs : \A y \in recs : x.createTime <= y.createTime
         IN FoldPostings(recs \ {r}, PropagationRule(bal, r.transactionType, base, r.amount),
                         base)

RECURSIVE SumAmounts(_)
SumAmounts(recs) ==
    IF recs = {} THEN 0
    ELSE LET r == CHOOSE x \in recs : TRUE IN r.amount + SumAmounts(recs \ {r})

StoredSum(id, type) == SumAmounts({r \in TransactionsOfJournal(id) : r.transactionType = type})

\* C1: every account's balance is the fold of the balance propagation rule
\* over the transaction records stored for it, in creation order, from the
\* balance it was created with.
C1_BalanceIsFoldOfPostings ==
    \A a \in DOMAIN InMemoryAccountTable :
        InMemoryAccountTable[a].balance =
            FoldPostings(TransactionsOnAccount(a), creationBalance[a],
                         InMemoryAccountTable[a].baseTransactionType)

\* C2: a PersistJournal call that returns an error leaves the three tables
\* as they were.
C2_RejectedJournalChangesNothing ==
    [][(lastOp' = "PersistJournal" /\ lastErr' # "nil") => UNCHANGED tables]_vars

\* A journal was rejected at the last validation step on accounts, with
\* journals and transactions already stored.
C2_Witness ==
    /\ lastOp = "PersistJournal"
    /\ lastErr = "ErrJournalTransactionMixCurrency"
    /\ DOMAIN InMemoryTransactionTable # {}

\* C3: for every stored journal the stored DEBIT amounts and the stored
\* CREDIT amounts both sum to the journal's amount.
C3_StoredJournalIsBalanced ==
    \A id \in DOMAIN InMemoryJournalTable :
        /\ StoredSum(id, DEBIT) = StoredSum(id, CREDIT)
        /\ StoredSum(id, DEBIT) = InMemoryJournalTable[id].amount

\* The preconditions 1 to 8 of section 4.1, and transaction IDs that differ
\* from one another: a journal against which nothing but its reversal can be
\* held.
SoundButForReversal(j) ==
    LET trxs == j.transactions
        n == Len(trxs)
    IN
    /\ ~j.isNil
    /\ j.journalID # ""
    /\ n > 0
    /\ j.createBy # ""
    /\ j.journalID \notin DOMAIN InMemoryJournalTable
    /\ \A i \in 1..n :
          /\ trxs[i].transactionID # ""
          /\ trxs[i].transactionID \notin DOMAIN InMemoryTransactionTable
          /\ trxs[i].accountNumber \in DOMAIN InMemoryAccountTable
          /\ InMemoryAccountTable[trxs[i].accountNumber].currency
                = InMemoryAccountTable[trxs[1].accountNumber].currency
    /\ \A i, k \in 1..n :
          i # k => /\ trxs[i].transactionID # trxs[k].transactionID
                   /\ trxs[i].accountNumber # trxs[k].accountNumber
    /\ SumAmounts({[i |-> i, amount |-> trxs[i].amount] :
                      i \in {k \in 1..n : trxs[k].transactionType = DEBIT}})
         = SumAmounts({[i |-> i, amount |-> trxs[i].amount] :
                      i \in {k \in 1..n : trxs[k].transactionType = CREDIT}})

\* j carries, for each posting stored for the journal target, a posting of
\* the same amount on the same account in the opposite direction, and no
\* other posting.
Mirrors(j, target) ==
    LET recs == TransactionsOfJournal(target) IN
    /\ Cardinality(recs) > 1
    /\ Len(j.transactions) = Cardinality(recs)
    /\ \A r \in recs : \E i \in 1..Len(j.transactions) :
          /\ j.transactions[i].accountNumber = r.accountNumber
          /\ j.transactions[i].amount = r.amount
          /\ j.transactions[i].transactionType # r.transactionType

Reversers(id) ==
    {k \in DOMAIN InMemoryJournalTable : InMemoryJournalTable[k].reversedJournalId = id}

C5_MirrorReversalIsAccepted ==
    (/\ lastOp = "PersistJournal"
     /\ SoundButForReversal(lastJournal)
     /\ lastJournal.reversedJournal \in DOMAIN InMemoryJournalTable
     /\ Reversers(lastJournal.reversedJournal) = {}
     /\ Mirrors(lastJournal, lastJournal.reversedJournal))
    => lastErr = "nil"

\* C6: no journal ID is the reversedJournalId of two journal records.
C6_AtMostOneReversal ==
    \A id \in JournalIds : Cardinality(Reversers(id)) <= 1

\* A well-formed journal that declares a stored journal as its reversed journal
\* has been through step 9 of the validation.
C6_Witness ==
    /\ lastOp = "PersistJournal"
    /\ SoundButForReversal(lastJournal)
    /\ lastJournal.reversedJournal \in DOMAIN InMemoryJournalTable
    /\ lastErr # "nil"
    /\ C6_AtMostOneReversal

\* C7 as stated: PersistJournal of a journal whose ID is stored fails with
\* ErrJournalAlreadyPersisted, whatever else the journal holds, and changes
\* no table.
C7_StoredIdAlwaysAlreadyPersisted ==
    [][(lastOp' = "PersistJournal"
           /\ lastJournal'.journalID \in DOMAIN InMemoryJournalTable)
       => (lastErr' = "ErrJournalAlreadyPersisted" /\ UNCHANGED tables)]_vars

\* C7 amended: PersistJournal of a journal whose ID is stored fails and
\* changes no table; the error is ErrJournalAlreadyPersisted when the journal
\* has a transaction and a creator, ErrJournalNoTransaction when it has no
\* transaction, and ErrJournalMissingAuthor when it has transactions and no
\* creator.
C7_StoredIdRejected ==
    [][(lastOp' = "PersistJournal"
           /\ lastJournal'.journalID \in DOMAIN InMemoryJournalTable)
       => /\ UNCHANGED tables
          /\ lastErr' = IF Len(lastJournal'.transactions) = 0 THEN "ErrJournalNoTransaction"
                        ELSE IF lastJournal'.createBy = "" THEN "ErrJournalMissingAuthor"
                        ELSE "ErrJournalAlreadyPersisted"]_vars

\* A journal with a stored ID, and with a transaction that has no ID, was
\* rejected as already persisted.
C7_Witness ==
    /\ lastOp = "PersistJournal"
    /\ lastErr = "ErrJournalAlreadyPersisted"
    /\ lastJournal.journalID \in DOMAIN InMemoryJournalTable
    /\ \E i \in 1..Len(lastJournal.transactions) :
          lastJournal.transactions[i].transactionID = ""

C10_RecordsAreNeverChanged ==
    [][/\ \A k \in DOMAIN InMemoryJournalTable :
             /\ k \in DOMAIN InMemoryJournalTable'
             /\ InMemoryJournalTable'[k] = InMemoryJournalTable[k]
       /\ \A k \in DOMAIN InMemoryTransactionTable :
             /\ k \in DOMAIN InMemoryTransactionTable'
             /\ InMemoryTransactionTable'[k] = InMemoryTransactionTable[k]]_vars

\* A second journal has been stored beside the records of the first.
C10_Witness ==
    /\ lastOp = "PersistJournal"
    /\ lastErr = "nil"
    /\ Cardinality(DOMAIN InMemoryJournalTable) = 2
    /\ Cardinality(DOMAIN InMemoryTransactionTable) > 2

\* The effect of the journal j on the balance of the account number, whose
\* base direction is base: the rule applied to every posting of j on it.
RECURSIVE JournalEffect(_, _, _, _)
JournalEffect(trxs, number, base, bal) ==
    IF Len(trxs) = 0 THEN bal
    ELSE JournalEffect(Tail(trxs), number, base,
            IF Head(trxs).accountNumber = number
            THEN PropagationRule(bal, Head(trxs).transactionType, base, Head(trxs).amount)
            ELSE bal)

\* The snapshots the journals first and then second store when the calls run
\* one after the other: transaction ID -> balance.
SerialSnapshot(first, second, trx, isSecond) ==
    LET base == InMemoryAccountTable[trx.accountNumber].baseTransactionType
        start == creationBalance[trx.accountNumber]
        before == IF isSecond THEN JournalEffect(first.transactions, trx.accountNumber,
                                                 base, start)
                  ELSE start
    IN PropagationRule(before, trx.transactionType, base, trx.amount)

SnapshotsAreSerial(first, second) ==
    /\ \A i \in 1..Len(first.transactions) :
          InMemoryTransactionTable[first.transactions[i].transactionID].accountBalance
             = SerialSnapshot(first, second, first.transactions[i], FALSE)
    /\ \A i \in 1..Len(second.transactions) :
          InMemoryTransactionTable[second.transactions[i].transactionID].accountBalance
             = SerialSnapshot(first, second, second.transactions[i], TRUE)

BothReturnedNil ==
    \A g \in Goroutines : calls[g].pc = "done" /\ calls[g].err = "nil"

\* The two journals share neither their ID nor a transaction ID.
DistinctJournals(j1, j2) ==
    /\ j1.journalID # j2.journalID
    /\ \A i \in 1..Len(j1.transactions) : \A k \in 1..Len(j2.transactions) :
          j1.transactions[i].transactionID # j2.transactions[k].transactionID

\* C8: when two concurrent PersistJournal calls, of journals with different
\* IDs and different transaction IDs, have both returned nil, every account
\* carries its initial balance with the postings of both journals
\* applied, and the stored snapshots are those of one of the two serial
\* orders.
C8_NoLostUpdate ==
    (BothReturnedNil /\ DistinctJournals(calls["g1"].journal, calls["g2"].journal)) =>
        LET j1 == calls["g1"].journal
            j2 == calls["g2"].journal
        IN
        /\ \A a \in DOMAIN InMemoryAccountTable :
              InMemoryAccountTable[a].balance =
                 JournalEffect(j2.transactions, a, InMemoryAccountTable[a].baseTransactionType,
                    JournalEffect(j1.transactions, a,
                                  InMemoryAccountTable[a].baseTransactionType,
                                  creationBalance[a]))
        /\ SnapshotsAreSerial(j1, j2) \/ SnapshotsAreSerial(j2, j1)

\* The sum of the effects of the postings the transaction table tt holds for
\* the account number, whose base direction is base: +amount when the
\* direction of the posting is base, -amount otherwise.
SumOfEffects(number, base, tt) ==
    FoldPostings({tt[t] : t \in {k \in DOMAIN tt : tt[k].accountNumber = number}}, 0, base)

\* C11: every account's balance is the sum of the effects of its stored
\* postings, whatever balance PersistAccount was given and whatever
\* UpdateAccount does; and no call but PersistJournal changes the balance or
\* the base direction of an account.
C11_BalanceIsSumOfEffects ==
    [][/\ \A a \in DOMAIN InMemoryAccountTable' :
             InMemoryAccountTable'[a].balance =
                SumOfEffects(a, InMemoryAccountTable'[a].baseTransactionType,
                             InMemoryTransactionTable')
       /\ lastOp' # "PersistJournal" =>
             \A a \in DOMAIN InMemoryAccountTable :
                /\ InMemoryAccountTable'[a].balance = InMemoryAccountTable[a].balance
                /\ InMemoryAccountTable'[a].baseTransactionType
                      = InMemoryAccountTable[a].baseTransactionType]_vars

\* The sum of the amounts of the transactions of direction type in the list
\* trxs of a submitted journal.
SubmittedSum(trxs, type) ==
    SumAmounts({[i |-> i, amount |-> trxs[i].amount] :
                   i \in {k \in 1..Len(trxs) : trxs[k].transactionType = type}})

\* The journal j violates, in the current tables, precondition p of the list
\* of section 4.1: 1 nil journal, 2 missing journal ID, 3 no transactions,
\* 4 missing creator, 5 journal ID already stored, 6 a transaction without
\* ID, 7 a transaction ID already stored, 8 debit and credit sums unequal,
\* 9 duplicate account, 10 account not persisted, 11 mixed currency,
\* 12 target already reversed.  (Nothing but 1 is asked of a nil journal.)
Violates(j, p) ==
    IF j.isNil THEN p = 1
    ELSE
      LET trxs == j.transactions
          n == Len(trxs)
          known == {i \in 1..n : trxs[i].accountNumber \in DOMAIN InMemoryAccountTable}
      IN
      \/ p = 2 /\ j.journalID = ""
      \/ p = 3 /\ n = 0
      \/ p = 4 /\ j.createBy = ""
      \/ p = 5 /\ j.journalID \in DOMAIN InMemoryJournalTable
      \/ p = 6 /\ \E i \in 1..n : trxs[i].transactionID = ""
      \/ p = 7 /\ \E i \in 1..n : trxs[i].transactionID \in DOMAIN InMemoryTransactionTable
      \/ p = 8 /\ SubmittedSum(trxs, DEBIT) # SubmittedSum(trxs, CREDIT)
      \/ p = 9 /\ \E i, k \in 1..n : i # k /\ trxs[i].accountNumber = trxs[k].accountNumber
      \/ p = 10 /\ known # 1..n
      \/ p = 11 /\ \E i, k \in known :
                      InMemoryAccountTable[trxs[i].accountNumber].currency
                         # InMemoryAccountTable[trxs[k].accountNumber].currency
      \/ p = 12 /\ j.reversedJournal # NoJournal
                /\ Reversers(j.reversedJournal) # {}

\* The error kind of each precondition.
ErrorKind ==
    <<"ErrJournalNil", "ErrJournalMissingId", "ErrJournalNoTransaction",
      "ErrJournalMissingAuthor", "ErrJournalAlreadyPersisted",
      "ErrJournalTransactionMissingID", "ErrJournalTransactionAlreadyPersisted",
      "ErrJournalNotBalance", "ErrJournalTransactionAccountDuplicate",
      "ErrJournalTransactionAccountNotPersist", "ErrJournalTransactionMixCurrency",
      "ErrJournalCanNotDoubleReverse">>

\* The earliest precondition from p on that j violates, 0 when there is none.
RECURSIVE EarliestViolated(_, _)
EarliestViolated(j, p) ==
    IF p > Len(ErrorKind) THEN 0
    ELSE IF Violates(j, p) THEN p
    ELSE EarliestViolated(j, p + 1)

\* C12: PersistJournal of a journal that violates preconditions of the list
\* returns the error of the earliest one it violates, and the error kinds of
\* the preconditions differ from one another.
C12_EarliestViolationIsReported ==
    [][lastOp' = "PersistJournal" =>
          LET earliest == EarliestViolated(lastJournal', 1) IN
          /\ earliest # 0 => lastErr' = ErrorKind[earliest]
          /\ Cardinality({ErrorKind[p] : p \in DOMAIN ErrorKind}) = Len(ErrorKind)]_vars

\* An unbalanced journal on accounts of two currencies was rejected.
C12_Witness ==
    /\ lastOp = "PersistJournal"
    /\ Violates(lastJournal, 8)
    /\ Violates(lastJournal, 11)
    /\ lastErr = "ErrJournalNotBalance"

\* C13: a successful PersistJournal of a journal with n transactions leaves n
\* more records in the transaction table, one per transaction under its own
\* ID with the account, the direction and the amount supplied; two
\* transactions of one journal with the same ID included.
C13_OneRecordPerTransaction ==
    [][(lastOp' = "PersistJournal" /\ lastErr' = "nil") =>
          LET trxs == lastJournal'.transactions IN
          /\ Cardinality(DOMAIN InMemoryTransactionTable')
                = Cardinality(DOMAIN InMemoryTransactionTable) + Len(trxs)
          /\ \A i \in 1..Len(trxs) :
                /\ trxs[i].transactionID \in DOMAIN InMemoryTransactionTable'
                /\ LET rec == InMemoryTransactionTable'[trxs[i].transactionID] IN
                   /\ rec.accountNumber = trxs[i].accountNumber
                   /\ rec.transactionType = trxs[i].transactionType
                   /\ rec.amount = trxs[i].amount]_vars

\* Two transactions of the journal j are on the same account.
PostsTwiceOnAnAccount(j) ==
    \E i, k \in 1..Len(j.transactions) :
        i # k /\ j.transactions[i].accountNumber = j.transactions[k].accountNumber

\* The transaction records of tt that one journal owns are on accounts that
\* differ from one another.
OneRecordPerAccount(tt) ==
    \A t, u \in DOMAIN tt :
        (t # u /\ tt[t].journalId = tt[u].journalId) => tt[t].accountNumber # tt[u].accountNumber

\* C14 as stated: the records of one journal are on pairwise distinct
\* accounts, and PersistJournal of a journal with two transactions on the
\* same account fails with ErrJournalTransactionAccountDuplicate.
C14_DuplicateAccountAlwaysItsError ==
    [][/\ OneRecordPerAccount(InMemoryTransactionTable')
       /\ (lastOp' = "PersistJournal" /\ ~lastJournal'.isNil
             /\ PostsTwiceOnAnAccount(lastJournal'))
            => lastErr' = "ErrJournalTransactionAccountDuplicate"]_vars

\* C14 amended: the records of one journal are on pairwise distinct accounts;
\* PersistJournal of a journal with two transactions on the same account
\* fails and changes no table, with ErrJournalTransactionAccountDuplicate
\* when the journal passes the checks before it (preconditions 1 to 8 of the
\* list of C12), and with the error of the earliest of these it violates
\* otherwise.
C14_DuplicateAccountRejected ==
    [][/\ OneRecordPerAccount(InMemoryTransactionTable')
       /\ (lastOp' = "PersistJournal" /\ ~lastJournal'.isNil
             /\ PostsTwiceOnAnAccount(lastJournal'))
            => /\ UNCHANGED tables
               /\ lastErr' = ErrorKind[EarliestViolated(lastJournal', 1)]
               /\ EarliestViolated(lastJournal', 1) <= 9]_vars

\* A balanced journal with fresh IDs and two transactions on one stored
\* account was rejected for the duplicate.
C14_Witness ==
    /\ lastOp = "PersistJournal"
    /\ ~lastJournal.isNil
    /\ PostsTwiceOnAnAccount(lastJournal)
    /\ lastErr = "ErrJournalTransactionAccountDuplicate"
    /\ DOMAIN InMemoryTransactionTable # {}

\* A transaction of the journal j is on an account that is not stored.
PostsOnUnknownAccount(j) ==
    \E i \in 1..Len(j.transactions) :
        j.transactions[i].accountNumber \notin DOMAIN InMemoryAccountTable

\* Every transaction record of tt is on an account of the account table at.
RecordsAreOnStoredAccounts(tt, at) ==
    \A t \in DOMAIN tt : tt[t].accountNumber \in DOMAIN at

\* C15 as stated: the account of every transaction record is a key of the
\* account table; no account is ever removed, and PersistJournal rejects with
\* ErrJournalTransactionAccountNotPersist any journal that posts on an
\* account which is not stored.
C15_UnknownAccountAlwaysItsError ==
    [][/\ RecordsAreOnStoredAccounts(InMemoryTransactionTable', InMemoryAccountTable')
       /\ DOMAIN InMemoryAccountTable \subseteq DOMAIN InMemoryAccountTable'
       /\ (lastOp' = "PersistJournal" /\ ~lastJournal'.isNil
             /\ PostsOnUnknownAccount(lastJournal'))
            => lastErr' = "ErrJournalTransactionAccountNotPersist"]_vars

\* C15 amended: the account of every transaction record is a key of the
\* account table; no account is ever removed, and PersistJournal of a journal
\* that posts on an account which is not stored fails and changes no table,
\* with ErrJournalTransactionAccountNotPersist when the journal passes the
\* checks before it (preconditions 1 to 9 of the list of C12), and with the
\* error of the earliest of these it violates otherwise.
C15_UnknownAccountRejected ==
    [][/\ RecordsAreOnStoredAccounts(InMemoryTransactionTable', InMemoryAccountTable')
       /\ DOMAIN InMemoryAccountTable \subseteq DOMAIN InMemoryAccountTable'
       /\ (lastOp' = "PersistJournal" /\ ~lastJournal'.isNil
             /\ PostsOnUnknownAccount(lastJournal'))
            => /\ UNCHANGED tables
               /\ lastErr' = ErrorKind[EarliestViolated(lastJournal', 1)]
               /\ EarliestViolated(lastJournal', 1) <= 10]_vars

\* A balanced journal with fresh IDs was rejected for an account that is not
\* stored, beside transaction records of a stored journal.
C15_Witness ==
    /\ lastOp = "PersistJournal"
    /\ ~lastJournal.isNil
    /\ PostsOnUnknownAccount(lastJournal)
    /\ lastErr = "ErrJournalTransactionAccountNotPersist"
    /\ DOMAIN InMemoryTransactionTable # {}

\* The accounts the transactions of j are on are stored, in one currency.
OneCurrency(j) ==
    \A i, k \in 1..Len(j.transactions) :
        /\ j.transactions[i].accountNumber \in DOMAIN InMemoryAccountTable
        /\ j.transactions[k].accountNumber \in DOMAIN InMemoryAccountTable
        /\ InMemoryAccountTable[j.transactions[i].accountNumber].currency
              = InMemoryAccountTable[j.transactions[k].accountNumber].currency

\* C16: PersistJournal returns nil only for a journal whose accounts have, at
\* the call, one currency; and a journal that passes the checks before the
\* currency check and whose accounts have more than one currency fails with
\* ErrJournalTransactionMixCurrency, wherever the account of another
\* currency stands in the list.
C16_MixedCurrencyIsRejected ==
    [][lastOp' = "PersistJournal" =>
          /\ lastErr' = "nil" => OneCurrency(lastJournal')
          /\ EarliestViolated(lastJournal', 1) = 11
                => (lastErr' = "ErrJournalTransactionMixCurrency" /\ UNCHANGED tables)]_vars

\* A journal was rejected for the currency, the account in USD being the
\* first of its list and an account in IDR the last.
C16_Witness ==
    /\ lastOp = "PersistJournal"
    /\ lastErr = "ErrJournalTransactionMixCurrency"
    /\ Len(lastJournal.transactions) = MaxTransactions
    /\ InMemoryAccountTable[lastJournal.transactions[1].accountNumber].currency = "USD"
    /\ InMemoryAccountTable[lastJournal.transactions[MaxTransactions].accountNumber].currency
          = "IDR"

\* C17: every transaction record has an amount greater than or equal to zero.
C17_StoredAmountsAreNotNegative ==
    \A t \in DOMAIN InMemoryTransactionTable : InMemoryTransactionTable[t].amount >= 0

\* C18: for the ID of a stored journal, IsJournalIdReversed returns true
\* exactly when a journal record has that ID as its reversedJournalId, with
\* no error, and the call changes no table.
C18_IsReversedTellsOfReversers ==
    [][(lastOp' = "IsJournalIdReversed"
          /\ lastResult'.journalId \in DOMAIN InMemoryJournalTable)
       => /\ lastErr' = "nil"
          /\ lastResult'.reversed = (Reversers(lastResult'.journalId) # {})
          /\ UNCHANGED tables]_vars

\* The query has found a stored journal reversed.
C18_Witness ==
    /\ lastOp = "IsJournalIdReversed"
    /\ lastErr = "nil"
    /\ lastResult.journalId \in DOMAIN InMemoryJournalTable
    /\ lastResult.reversed

\* The smaller of two numbers.
Min(a, b) == IF a < b THEN a ELSE b

\* C19: ListTransactionsOnAccount returns only transactions of the account
\* given whose time lies between from and until, in ascending order of
\* creation time, and of these the page asked for: at most pageSize entries,
\* from the entry at page * pageSize on.
C19_ListIsThePageInTheRange ==
    lastOp = "ListTransactionsOnAccount" =>
        LET r == lastResult
            inRange == {t \in TransactionsOnAccount(r.accountNumber) :
                           r.from <= t.transactionTime /\ t.transactionTime <= r.until}
            offset == r.request.page * r.request.pageSize
            got == r.transactions
        IN
        /\ \A i \in DOMAIN got : got[i] \in inRange
        /\ \A i, k \in DOMAIN got : i < k => got[i].createTime <= got[k].createTime
        /\ Len(got) <= r.request.pageSize
        /\ Len(got) = IF offset >= Cardinality(inRange) THEN 0
                      ELSE Min(r.request.pageSize, Cardinality(inRange) - offset)
        /\ \A i \in DOMAIN got :
              Cardinality({t \in inRange : t.createTime < got[i].createTime}) >= offset

\* C20: ListJournals counts and returns the journals whose journaling time t
\* satisfies from <= t <= until.
C20_ListJournalsIsInclusive ==
    lastOp = "ListJournals" =>
        LET inRange == {InMemoryJournalTable[k] :
                           k \in {x \in DOMAIN InMemoryJournalTable :
                                    /\ lastResult.from <= InMemoryJournalTable[x].journalingTime
                                    /\ InMemoryJournalTable[x].journalingTime
                                          <= lastResult.until}}
        IN
        /\ lastResult.count = Cardinality(inRange)
        /\ {lastResult.allResult[i] : i \in DOMAIN lastResult.allResult} = inRange

\* C21 as stated: PersistAccount of an account whose number is stored fails
\* with ErrAccountAlreadyPersisted, whatever else the account holds, and
\* leaves the stored record, its balance included, as it was; and no step
\* removes an account record.
C21_StoredNumberAlwaysAlreadyPersisted ==
    [][/\ DOMAIN InMemoryAccountTable \subseteq DOMAIN InMemoryAccountTable'
       /\ (lastOp' = "PersistAccount"
             /\ lastAccount'.accountNumber \in DOMAIN InMemoryAccountTable)
            => /\ lastErr' = "ErrAccountAlreadyPersisted"
               /\ InMemoryAccountTable'[lastAccount'.accountNumber]
                     = InMemoryAccountTable[lastAccount'.accountNumber]]_vars

\* C21 amended: PersistAccount of an account whose number is stored fails and
\* leaves the account table, the balance of the stored record included, as
\* it was; the error is ErrAccountMissingName when the account has no name,
\* ErrAccountMissingDescription when it has a name and no description,
\* ErrAccountMissingCreator when it has both and no creator, and
\* ErrAccountAlreadyPersisted otherwise; and no step removes an account
\* record.
C21_StoredNumberRejected ==
    [][/\ DOMAIN InMemoryAccountTable \subseteq DOMAIN InMemoryAccountTable'
       /\ (lastOp' = "PersistAccount"
             /\ lastAccount'.accountNumber \in DOMAIN InMemoryAccountTable)
            => /\ UNCHANGED InMemoryAccountTable
               /\ lastErr' = IF lastAccount'.name = "" THEN "ErrAccountMissingName"
                             ELSE IF lastAccount'.description = ""
                                  THEN "ErrAccountMissingDescription"
                             ELSE IF lastAccount'.createBy = ""
                                  THEN "ErrAccountMissingCreator"
                             ELSE "ErrAccountAlreadyPersisted"]_vars

\* PersistAccount was called again for a stored account whose balance the
\* journals have moved away from the balance the call carries.
C21_Witness ==
    /\ lastOp = "PersistAccount"
    /\ lastErr = "ErrAccountAlreadyPersisted"
    /\ lastAccount.accountNumber \in DOMAIN InMemoryAccountTable
    /\ InMemoryAccountTable[lastAccount.accountNumber].balance # lastAccount.balance

\* C22: for every transaction of a journal PersistJournal has accepted, with
\* bal the balance of its account before the call, the transaction record
\* stored under its ID carries bal + amount when its direction is the base
\* direction of the account and bal - amount otherwise, and the account
\* carries that snapshot as its balance after the call.
C22_SnapshotIsTheNewBalance ==
    [][(lastOp' = "PersistJournal" /\ lastErr' = "nil") =>
          \A i \in 1..Len(lastJournal'.transactions) :
             LET trx == lastJournal'.transactions[i]
                 acc == InMemoryAccountTable[trx.accountNumber]
                 rec == InMemoryTransactionTable'[trx.transactionID]
             IN
             /\ rec.accountBalance = PropagationRule(acc.balance, trx.transactionType,
                                                     acc.baseTransactionType, trx.amount)
             /\ InMemoryAccountTable'[trx.accountNumber].balance = rec.accountBalance]_vars

\* Both goroutines have left PersistJournal.
BothDone == \A g \in Goroutines : calls[g].pc = "done"

\* The tables hold what the call of the journal j alone leaves on top of what
\* was stored before the goroutines started: no journal record and no
\* transaction record of another call, the records of j as supplied, and on
\* every account the balance its stored postings add up to.
StoresAreThoseOf(j) ==
    /\ DOMAIN InMemoryJournalTable
          \subseteq {j.journalID} \cup {p.journalID : p \in JournalsStoredBefore}
    /\ j.journalID \in DOMAIN InMemoryJournalTable
    /\ InMemoryJournalTable[j.journalID].reversal = (j.reversedJournal # NoJournal)
    /\ DOMAIN InMemoryTransactionTable
          \subseteq {j.transactions[i].transactionID : i \in 1..Len(j.transactions)}
                    \cup UNION {{p.transactions[i].transactionID : i \in 1..Len(p.transactions)} :
                                   p \in JournalsStoredBefore}
    /\ \A i \in 1..Len(j.transactions) :
          /\ j.transactions[i].transactionID \in DOMAIN InMemoryTransactionTable
          /\ LET rec == InMemoryTransactionTable[j.transactions[i].transactionID] IN
             /\ rec.journalId = j.journalID
             /\ rec.accountNumber = j.transactions[i].accountNumber
             /\ rec.transactionType = j.transactions[i].transactionType
             /\ rec.amount = j.transactions[i].amount
    /\ \A a \in DOMAIN InMemoryAccountTable :
          InMemoryAccountTable[a].balance =
             FoldPostings(TransactionsOnAccount(a), creationBalance[a],
                          InMemoryAccountTable[a].baseTransactionType)

\* C23: when two concurrent PersistJournal calls whose journals have the same
\* ID, or share a transaction ID, have both returned, at most one of them has
\* returned nil, and the tables are those the call that returned nil leaves
\* when it runs alone.
C23_OneOfTwoSameIdCallsWins ==
    (BothDone /\ ~DistinctJournals(calls["g1"].journal, calls["g2"].journal)) =>
        /\ ~BothReturnedNil
        /\ \A g \in Goroutines :
              calls[g].err = "nil" => StoresAreThoseOf(calls[g].journal)

\* The call of goroutine g has put its journal record into the journal table.
HasInsertedJournal(g) ==
    \/ calls[g].pc \in {"readBalance", "insertTransaction", "writeBalance"}
    \/ calls[g].pc = "done" /\ calls[g].err = "nil"

\* C24: at every moment of a PersistJournal call, what the reads return is
\* whole: when IsJournalIdExist finds the journal of the call, GetJournalById
\* and GetTransactionById find every transaction of it, and GetAccountById
\* shows on the account of each the balance its record carries.
C24_ReadsSeeNoPartialJournal ==
    \A g \in Goroutines :
        LET j == calls[g].journal IN
        (HasInsertedJournal(g) /\ IsJournalIdExist(j.journalID, InMemoryJournalTable)) =>
            \A i \in 1..Len(j.transactions) :
               LET trx == GetTransactionById(j.transactions[i].transactionID,
                                             InMemoryTransactionTable)
                   got == GetJournalById(j.journalID, InMemoryJournalTable,
                                         InMemoryTransactionTable)
               IN
               /\ trx.err = "nil"
               /\ got.err = "nil" =>
                     \E r \in got.transactions :
                        r.transactionId = j.transactions[i].transactionID
               /\ GetAccountById(j.transactions[i].accountNumber,
                                 InMemoryAccountTable).balance = trx.accountBalance

\* The sum of bal[a] over the account numbers a of the set numbers.
RECURSIVE SumOver(_, _)
SumOver(numbers, bal) ==
    IF numbers = {} THEN 0
    ELSE LET a == CHOOSE x \in numbers : TRUE IN bal[a] + SumOver(numbers \ {a}, bal)

\* The sum of bal over the DEBIT-based accounts of the account table at,
\* minus its sum over the CREDIT-based ones.
DebitMinusCredit(at, bal) ==
    SumOver({a \in DOMAIN at : at[a].baseTransactionType = DEBIT}, bal)
      - SumOver({a \in DOMAIN at : at[a].baseTransactionType = CREDIT}, bal)

BalanceOf(at) == [a \in DOMAIN at |-> at[a].balance]

\* C25: a PersistJournal call that returns nil leaves the sum of the balances
\* of the DEBIT-based accounts minus the sum of the balances of the
\* CREDIT-based accounts as it was; and after any sequence of PersistAccount
\* and PersistJournal calls that quantity is the one the balances the
\* accounts were created with give.
C25_DebitMinusCreditIsKept ==
    [][/\ (lastOp' = "PersistJournal" /\ lastErr' = "nil") =>
             DebitMinusCredit(InMemoryAccountTable', BalanceOf(InMemoryAccountTable'))
                = DebitMinusCredit(InMemoryAccountTable, BalanceOf(InMemoryAccountTable))
       /\ DebitMinusCredit(InMemoryAccountTable', BalanceOf(InMemoryAccountTable'))
             = DebitMinusCredit(InMemoryAccountTable', creationBalance')]_vars

\* A journal has been stored on accounts that are all DEBIT-based, one of
\* its postings against the base direction, after which the balances are no
\* longer those of the creation.
C25_Witness ==
    /\ lastOp = "PersistJournal"
    /\ lastErr = "nil"
    /\ \E i \in 1..Len(lastJournal.transactions) :
          lastJournal.transactions[i].transactionType
             # InMemoryAccountTable[lastJournal.transactions[i].accountNumber].baseTransactionType
    /\ \E a \in DOMAIN InMemoryAccountTable :
          InMemoryAccountTable[a].balance # creationBalance[a]
    /\ \A a \in DOMAIN InMemoryAccountTable :
          InMemoryAccountTable[a].baseTransactionType = DEBIT

\* The account numbers the transactions of the journal j are on.
AccountsOf(j) == {j.transactions[i].accountNumber : i \in 1..Len(j.transactions)}

\* C26: a PersistJournal call that returns nil adds and removes no account
\* record, leaves the record of every account none of its transactions is on
\* as it was, and changes nothing but the balance in the record of an account
\* one of its transactions is on (of the fields the account record has here:
\* id, currency, name, description, baseTransactionType, balance, createBy).
C26_OnlyBalancesOfTheJournalChange ==
    [][(lastOp' = "PersistJournal" /\ lastErr' = "nil") =>
          /\ DOMAIN InMemoryAccountTable' = DOMAIN InMemoryAccountTable
          /\ \A a \in DOMAIN InMemoryAccountTable :
                IF a \in AccountsOf(lastJournal')
                THEN [InMemoryAccountTable'[a] EXCEPT !.balance = InMemoryAccountTable[a].balance]
                        = InMemoryAccountTable[a]
                ELSE InMemoryAccountTable'[a] = InMemoryAccountTable[a]]_vars

\* A journal has been stored that moved the balances of two accounts and is
\* on no transaction of a third, stored account whose balance is not zero.
C26_Witness ==
    /\ lastOp = "PersistJournal"
    /\ lastErr = "nil"
    /\ \E a \in DOMAIN InMemoryAccountTable \ AccountsOf(lastJournal) :
          InMemoryAccountTable[a].balance # 0
    /\ \E a \in AccountsOf(lastJournal) : InMemoryAccountTable[a].balance # creationBalance[a]

\* A transaction as the claim compares it: by ID, account, direction and
\* amount.
Posting(id, number, type, amount) ==
    [transactionID |-> id, accountNumber |-> number, transactionType |-> type,
     amount |-> amount]

\* C27: after PersistJournal of the journal j has returned nil, GetJournalById
\* of its ID returns, without error, a journal with the ID, the description
\* and the creator of j, with the debit total of j as its amount, and with
\* the transactions supplied in j, compared by ID, account, direction and
\* amount, as its set of transactions; and GetJournalById of an ID that is
\* not in the journal table returns ErrJournalIdNotFound.
C27_StoredJournalReadsBackAsSupplied ==
    /\ (lastOp = "PersistJournal" /\ lastErr = "nil") =>
          LET j == lastJournal
              got == GetJournalById(j.journalID, InMemoryJournalTable,
                                    InMemoryTransactionTable)
          IN
          /\ got.err = "nil"
          /\ got.journalID = j.journalID
          /\ got.description = j.description
          /\ got.createBy = j.createBy
          /\ got.amount = SubmittedSum(j.transactions, DEBIT)
          /\ {Posting(r.transactionId, r.accountNumber, r.transactionType, r.amount) :
                 r \in got.transactions}
               = {Posting(j.transactions[i].transactionID, j.transactions[i].accountNumber,
                          j.transactions[i].transactionType, j.transactions[i].amount) :
                     i \in 1..Len(j.transactions)}
    /\ \A id \in JournalIds \ DOMAIN InMemoryJournalTable :
          GetJournalById(id, InMemoryJournalTable, InMemoryTransactionTable).err
             = "ErrJournalIdNotFound"

====
